---- MODULE Spec2Model ----
(***************************************************************************)
(* Implied growth calculator (Gordon growth model).                        *)
(*                                                                         *)
(* The engine (modules/calculations.js), the validation collaborator       *)
(* (modules/validation.js), the observable state (modules/state.js) and    *)
(* the two entry points: the closed-form one (unnamed/part_000) and the    *)
(* direct-D1 one (unnamed/part_001).                                       *)
(*                                                                         *)
(* JavaScript numbers are modelled as extended rationals <<n, d>>:         *)
(*   d > 0          the finite number n/d, in lowest terms                 *)
(*   <<1, 0>>       Infinity        <<-1, 0>>   -Infinity                  *)
(*   <<0, 0>>       NaN             <<0, -1>>   undefined (a missing key)  *)
(*   <<0, -2>>      the string ''   <<0, -3>>   null                       *)
(* Arithmetic is exact: IEEE rounding is not modelled, and -0 is 0.        *)
(***************************************************************************)
EXTENDS Integers, Sequences, FiniteSets, TLC

VARIABLES
    state,      \* the shared state object of modules/state.js
    pending,    \* per input field: the debounce timer, <<>> or <<text of the input>>
    notified,   \* the listener calls of the last handler: which listener, with which state
    engineLog,  \* the arguments of the calls of calculateGrowthMetrics in the last handler
    lastOp,     \* the handler that ran last
    call,       \* pure-function harness: the function called and its arguments
    ret,        \* pure-function harness: what it returned
    view,       \* the window and the view toggle: width, chart button, resize timer
    chart       \* the chart module and what its canvas carries

vars == <<state, pending, notified, engineLog, lastOp, call, ret, view, chart>>

-----------------------------------------------------------------------------
(* JavaScript numbers *)

NaN == <<0, 0>>

Infinity == <<1, 0>>

NegInfinity == <<-1, 0>>

Undefined == <<0, -1>>

\* the empty string '' and the value null, where a caller passes them for a number
EmptyString == <<0, -2>>

NullValue == <<0, -3>>

Abs(i) == IF i < 0 THEN -i ELSE i

Sign(i) == IF i > 0 THEN 1 ELSE IF i < 0 THEN -1 ELSE 0

RECURSIVE GCD(_, _)
GCD(a, b) == IF b = 0 THEN a ELSE GCD(b, a % b)

\* the number n/d (d >= 0) in its canonical form
Norm(n, d) ==
    IF d = 0 THEN <<Sign(n), 0>>
    ELSE LET g == GCD(Abs(n), d) IN <<n \div g, d \div g>>

Num(i) == <<i, 1>>

\* a decimal literal with two fraction digits: Dec(5456) is 54.56
Dec(c) == Norm(c, 100)

\* ToNumber: undefined becomes NaN, '' and null become 0
ToNumber(x) ==
    IF x = Undefined THEN NaN
    ELSE IF x \in {EmptyString, NullValue} THEN Num(0)
    ELSE x

IsNaNNum(x) == x = NaN

IsFiniteNum(x) == x[2] > 0

\* isNaN(value) of JavaScript: coerces first
isNaN(x) == IsNaNNum(ToNumber(x))

Neg(x) == LET a == ToNumber(x) IN <<-a[1], a[2]>>

Mul(x, y) ==
    LET a == ToNumber(x)
        b == ToNumber(y)
    IN  IF IsNaNNum(a) \/ IsNaNNum(b) THEN NaN
        ELSE IF a[2] = 0 \/ b[2] = 0 THEN <<Sign(a[1]) * Sign(b[1]), 0>>
        ELSE LET g1 == GCD(Abs(a[1]), b[2])
                 g2 == GCD(Abs(b[1]), a[2])
             IN  Norm((a[1] \div g1) * (b[1] \div g2), (a[2] \div g2) * (b[2] \div g1))

\* 1/x, with 1/0 = Infinity (the zero of a sum or of a literal is +0)
Recip(x) ==
    LET a == ToNumber(x)
    IN  IF a[1] > 0 THEN <<a[2], a[1]>>
        ELSE IF a[1] < 0 THEN <<-a[2], -a[1]>>
        ELSE IF a[2] > 0 THEN Infinity
        ELSE NaN

Div(x, y) == Mul(x, Recip(y))

Add(x, y) ==
    LET a == ToNumber(x)
        b == ToNumber(y)
    IN  IF IsNaNNum(a) \/ IsNaNNum(b) THEN NaN
        ELSE IF a[2] = 0 /\ b[2] = 0 THEN (IF a = b THEN a ELSE NaN)
        ELSE IF a[2] = 0 THEN a
        ELSE IF b[2] = 0 THEN b
        ELSE LET g == GCD(a[2], b[2])
             IN  Norm(a[1] * (b[2] \div g) + b[1] * (a[2] \div g), (a[2] \div g) * b[2])

Sub(x, y) == Add(x, Neg(y))

\* x < y of JavaScript: false when either side is NaN
Lt(x, y) ==
    LET a == ToNumber(x)
        b == ToNumber(y)
    IN  IF IsNaNNum(a) \/ IsNaNNum(b) THEN FALSE
        ELSE IF a[2] = 0 /\ b[2] = 0 THEN a[1] < b[1]
        ELSE IF a[2] = 0 THEN a[1] < 0
        ELSE IF b[2] = 0 THEN b[1] > 0
        ELSE IF Sign(a[1]) # Sign(b[1]) THEN a[1] < b[1]
        ELSE LET g == GCD(a[2], b[2])
             IN  a[1] * (b[2] \div g) < b[1] * (a[2] \div g)

Gt(x, y) == Lt(y, x)

\* x >= y of JavaScript: false when either side is NaN
Ge(x, y) ==
    LET a == ToNumber(x)
        b == ToNumber(y)
    IN  ~IsNaNNum(a) /\ ~IsNaNNum(b) /\ ~Lt(a, b)

\* Math.pow(base, e) for an integer exponent e >= 1
RECURSIVE Pow(_, _)
Pow(base, e) == IF e <= 1 THEN ToNumber(base) ELSE Mul(Pow(base, e - 1), base)

-----------------------------------------------------------------------------
(* modules/calculations.js *)

\* the fixed projection horizon passed by calculateGrowthMetrics
Horizon == 10

\* a destructured key of an object: undefined when the key is missing
Get(obj, key) == IF key \in DOMAIN obj THEN obj[key] ELSE Undefined

\* calculateImpliedGrowth with the percentage used as the rate (no division by 100)
calculateImpliedGrowthNoPercent(params) ==
    LET marketPrice     == Get(params, "marketPrice")
        currentDividend == Get(params, "currentDividend")
        r               == Get(params, "requiredReturn")
        impliedGrowth   == Div(Sub(Mul(r, marketPrice), currentDividend),
                               Add(marketPrice, currentDividend))
        expectedD1      == Mul(currentDividend, Add(Num(1), impliedGrowth))
        dividendYield   == Mul(Div(expectedD1, marketPrice), Num(100))
    IN  [ impliedGrowth        |-> Mul(impliedGrowth, Num(100)),
          impliedGrowthDecimal |-> impliedGrowth,
          expectedD1           |-> expectedD1,
          dividendYield        |-> dividendYield,
          isValid              |-> Lt(impliedGrowth, r) /\ Ge(impliedGrowth, Num(0)) ]

\* calculateImpliedGrowth with isValid tested as g <= r
calculateImpliedGrowthLooseValid(params) ==
    LET marketPrice     == Get(params, "marketPrice")
        currentDividend == Get(params, "currentDividend")
        requiredReturn  == Get(params, "requiredReturn")
        r               == Div(requiredReturn, Num(100))
        impliedGrowth   == Div(Sub(Mul(r, marketPrice), currentDividend),
                               Add(marketPrice, currentDividend))
        expectedD1      == Mul(currentDividend, Add(Num(1), impliedGrowth))
        dividendYield   == Mul(Div(expectedD1, marketPrice), Num(100))
    IN  [ impliedGrowth        |-> Mul(impliedGrowth, Num(100)),
          impliedGrowthDecimal |-> impliedGrowth,
          expectedD1           |-> expectedD1,
          dividendYield        |-> dividendYield,
          isValid              |-> ~Lt(r, impliedGrowth) /\ Ge(impliedGrowth, Num(0)) ]

\* the next dividend taken to be the current one
ExpectedD1NoGrowth(currentDividend, impliedGrowth) == ToNumber(currentDividend)

\* Div_{t+1} = Div_t * (1 + g)
ExpectedD1(currentDividend, impliedGrowth) ==
    Mul(currentDividend, Add(Num(1), impliedGrowth))

\* the dividend yield left as a fraction
DividendYieldFraction(expectedD1, marketPrice) == Div(expectedD1, marketPrice)

\* the dividend yield in percent, on Div_{t+1}
DividendYield(expectedD1, marketPrice) == Mul(Div(expectedD1, marketPrice), Num(100))

\* the validity test without its lower bound
IsValidGrowthNoLowerBound(impliedGrowth, r) == Lt(impliedGrowth, r)

\* impliedGrowth < r && impliedGrowth >= 0
IsValidGrowth(impliedGrowth, r) == Lt(impliedGrowth, r) /\ Ge(impliedGrowth, Num(0))

calculateImpliedGrowth(params) ==
    LET marketPrice     == Get(params, "marketPrice")
        currentDividend == Get(params, "currentDividend")
        requiredReturn  == Get(params, "requiredReturn")
        r               == Div(requiredReturn, Num(100))
        impliedGrowth   == Div(Sub(Mul(r, marketPrice), currentDividend),
                               Add(marketPrice, currentDividend))
        expectedD1      == ExpectedD1(currentDividend, impliedGrowth)
        dividendYield   == DividendYield(expectedD1, marketPrice)
    IN  [ impliedGrowth        |-> Mul(impliedGrowth, Num(100)),
          impliedGrowthDecimal |-> impliedGrowth,
          expectedD1           |-> expectedD1,
          dividendYield        |-> dividendYield,
          isValid              |-> IsValidGrowth(impliedGrowth, r) ]

\* the year-0 point with the investment entered as a positive amount
YearZeroPointUnsigned(marketPrice) ==
    [ year               |-> 0,
      dividend           |-> Num(0),
      investment         |-> ToNumber(marketPrice),
      totalCashFlow      |-> Neg(marketPrice),
      cumulativeCashFlow |-> Neg(marketPrice) ]

\* the point pushed for year 0
YearZeroPoint(marketPrice) ==
    [ year               |-> 0,
      dividend           |-> Num(0),
      investment         |-> Neg(marketPrice),
      totalCashFlow      |-> Neg(marketPrice),
      cumulativeCashFlow |-> Neg(marketPrice) ]

\* the loop test with the last year left out
LoopContinuesExclusive(year, years) == year < years

\* the loop test of the projection
LoopContinues(year, years) == year <= years

\* the dividend of a year with the growth added once per year and not compounded
DividendOfYearSimple(currentDividend, impliedGrowthDecimal, year) ==
    Mul(currentDividend, Add(Num(1), Mul(impliedGrowthDecimal, Num(year))))

\* the dividend of a year compounded one year short
DividendOfYearLagged(currentDividend, impliedGrowthDecimal, year) ==
    IF year = 1 THEN ToNumber(currentDividend)
    ELSE Mul(currentDividend, Pow(Add(Num(1), impliedGrowthDecimal), year - 1))

\* D_t = D0 * (1 + g)^t
DividendOfYear(currentDividend, impliedGrowthDecimal, year) ==
    Mul(currentDividend, Pow(Add(Num(1), impliedGrowthDecimal), year))

\* the running total restarted at every year
CumulativeTotalRestarted(cumulativeTotal, dividend) == ToNumber(dividend)

\* cumulativeTotal += dividend
CumulativeTotal(cumulativeTotal, dividend) == Add(cumulativeTotal, dividend)

\* the for loop: one iteration per call, from `year` on
RECURSIVE CashFlowLoop(_, _, _, _, _, _)
CashFlowLoop(cashFlows, cumulativeTotal, year, years, currentDividend, impliedGrowthDecimal) ==
    IF ~LoopContinues(year, years) THEN cashFlows
    ELSE LET dividend == DividendOfYear(currentDividend, impliedGrowthDecimal, year)
             total    == CumulativeTotal(cumulativeTotal, dividend)
         IN  CashFlowLoop(
                 Append(cashFlows,
                        [ year               |-> year,
                          dividend           |-> dividend,
                          investment         |-> Num(0),
                          totalCashFlow      |-> dividend,
                          cumulativeCashFlow |-> total ]),
                 total, year + 1, years, currentDividend, impliedGrowthDecimal)

\* the default of the years parameter
DefaultYears == 10

\* params.years is <<>> when the key is omitted (the default applies) and <<n>> otherwise
generateCashFlows(params) ==
    LET marketPrice          == Get(params, "marketPrice")
        currentDividend      == Get(params, "currentDividend")
        impliedGrowthDecimal == Get(params, "impliedGrowthDecimal")
        years                == IF params.years = <<>> THEN DefaultYears ELSE params.years[1]
    IN  CashFlowLoop(<<YearZeroPoint(marketPrice)>>, Neg(marketPrice), 1, years,
                     currentDividend, impliedGrowthDecimal)

\* the arguments calculateGrowthMetrics hands to generateCashFlows
ProjectionArgs(params, growthData) ==
    [ marketPrice          |-> Get(params, "marketPrice"),
      currentDividend      |-> Get(params, "currentDividend"),
      impliedGrowthDecimal |-> growthData.impliedGrowthDecimal,
      years                |-> <<Horizon>> ]

\* calculateGrowthMetrics up to the call of generateCashFlows: the growth data, and
\* under cashFlows the arguments of that call.  The projection is a pure function of
\* them, so the entry points keep a result in this form and CashFlowsOf unfolds it.
GrowthMetricsOf(params) ==
    LET growthData == calculateImpliedGrowth(params)
    IN  [ impliedGrowth        |-> growthData.impliedGrowth,
          impliedGrowthDecimal |-> growthData.impliedGrowthDecimal,
          expectedD1           |-> growthData.expectedD1,
          dividendYield        |-> growthData.dividendYield,
          isValid              |-> growthData.isValid,
          cashFlows            |-> ProjectionArgs(params, growthData) ]

CashFlowsOf(metrics) == generateCashFlows(metrics.cashFlows)

calculateGrowthMetrics(params) ==
    LET metrics == GrowthMetricsOf(params)
    IN  [ impliedGrowth        |-> metrics.impliedGrowth,
          impliedGrowthDecimal |-> metrics.impliedGrowthDecimal,
          expectedD1           |-> metrics.expectedD1,
          dividendYield        |-> metrics.dividendYield,
          isValid              |-> metrics.isValid,
          cashFlows            |-> CashFlowsOf(metrics) ]

\* how a call ends: with a returned value, or with a thrown Error
Returned(value) == [kind |-> "value", value |-> value]

Thrown(message) == [kind |-> "throw", message |-> message]

\* calculateGordonPrice with the guard g > r
calculateGordonPriceStrict(d1, r, g) ==
    IF Gt(g, r) THEN Thrown("Growth rate must be less than required return")
    ELSE Returned(Div(d1, Sub(r, g)))

\* calculateGordonPrice dividing by r + g
calculateGordonPricePlus(d1, r, g) ==
    IF Ge(g, r) THEN Thrown("Growth rate must be less than required return")
    ELSE Returned(Div(d1, Add(r, g)))

calculateGordonPrice(d1, r, g) ==
    IF Ge(g, r) THEN Thrown("Growth rate must be less than required return")
    ELSE Returned(Div(d1, Sub(r, g)))

-----------------------------------------------------------------------------
(* modules/validation.js *)

\* no error message
Null == "null"

\* the keys of VALIDATION_RULES; minDisplay and maxDisplay are the interpolations
\* `${rules.prefix}${rules.min}` or `${rules.min}${rules.unit}` of validateField
VALIDATION_RULES ==
    [ marketPrice      |-> [ min |-> Num(1),  max |-> Num(500), required |-> TRUE,
                             label |-> "Market price",
                             minDisplay |-> "$1", maxDisplay |-> "$500" ],
      currentDividend  |-> [ min |-> Num(0),  max |-> Num(50),  required |-> TRUE,
                             label |-> "Current dividend",
                             minDisplay |-> "$0", maxDisplay |-> "$50" ],
      requiredReturn   |-> [ min |-> Dec(1),  max |-> Num(25),  required |-> TRUE,
                             label |-> "Required return",
                             minDisplay |-> "0.01%", maxDisplay |-> "25%" ],
      expectedDividend |-> [ min |-> Num(0),  max |-> Num(50),  required |-> TRUE,
                             label |-> "Expected next dividend",
                             minDisplay |-> "$0", maxDisplay |-> "$50" ] ]

RuleFields == DOMAIN VALIDATION_RULES

RequiredMessage(rules) == rules.label \o " is required"

RangeMessage(rules) ==
    rules.label \o " must be between " \o rules.minDisplay \o " and " \o rules.maxDisplay

\* value === '' || value == null || isNaN(value)
IsMissing(value) ==
    value = EmptyString \/ value \in {NullValue, Undefined} \/ isNaN(value)

\* validateField without the test against rules.min
validateFieldNoMin(field, value) ==
    IF field \notin RuleFields THEN Null
    ELSE LET rules == VALIDATION_RULES[field]
         IN  IF rules.required /\ IsMissing(value) THEN RequiredMessage(rules)
             ELSE IF Gt(value, rules.max) THEN RangeMessage(rules)
             ELSE Null

\* validateField with both bounds exclusive
validateFieldExclusive(field, value) ==
    IF field \notin RuleFields THEN Null
    ELSE LET rules == VALIDATION_RULES[field]
         IN  IF rules.required /\ IsMissing(value) THEN RequiredMessage(rules)
             ELSE IF ~Gt(value, rules.min) THEN RangeMessage(rules)
             ELSE IF ~Lt(value, rules.max) THEN RangeMessage(rules)
             ELSE Null

validateField(field, value) ==
    IF field \notin RuleFields THEN Null
    ELSE LET rules == VALIDATION_RULES[field]
         IN  IF rules.required /\ IsMissing(value) THEN RequiredMessage(rules)
             ELSE IF Lt(value, rules.min) THEN RangeMessage(rules)
             ELSE IF Gt(value, rules.max) THEN RangeMessage(rules)
             ELSE Null

GrowthTooHighMessage == "Invalid inputs: implied growth rate must be less than required return"

GrowthNegativeMessage == "Invalid inputs: implied growth rate cannot be negative"

validateFinancialLogic(impliedGrowth, requiredReturn) ==
    IF Ge(impliedGrowth, requiredReturn) THEN GrowthTooHighMessage
    ELSE IF Lt(impliedGrowth, Num(0)) THEN GrowthNegativeMessage
    ELSE Null

\* an error object: a function from the keys that carry an error to their messages
NoErrors == [k \in {} |-> Null]

hasErrors(errors) == DOMAIN errors # {}

\* the forEach over the rules: one key per field in error
FieldErrors(inputs) ==
    LET bad == {field \in RuleFields : validateField(field, Get(inputs, field)) # Null}
    IN  [field \in bad |-> validateField(field, Get(inputs, field))]

\* the growth the validation derives: r - d1 / p0, from expectedDividend
ValidationGrowth(inputs) ==
    LET r  == Div(Get(inputs, "requiredReturn"), Num(100))
        d1 == Get(inputs, "expectedDividend")
        p0 == Get(inputs, "marketPrice")
    IN  Sub(r, Div(d1, p0))

\* validateAllInputs with the financial check run whatever the field errors
validateAllInputsAlwaysFinancial(inputs) ==
    LET errors     == FieldErrors(inputs)
        r          == Div(Get(inputs, "requiredReturn"), Num(100))
        g          == ValidationGrowth(inputs)
        logicError == validateFinancialLogic(g, r)
    IN  IF logicError # Null
        THEN [k \in DOMAIN errors \cup {"financial"} |->
                 IF k = "financial" THEN logicError ELSE errors[k]]
        ELSE errors

validateAllInputs(inputs) ==
    LET errors == FieldErrors(inputs)
    IN  IF ~hasErrors(errors)
        THEN LET r          == Div(Get(inputs, "requiredReturn"), Num(100))
                 g          == ValidationGrowth(inputs)
                 logicError == validateFinancialLogic(g, r)
             IN  IF logicError # Null
                 THEN [k \in {"financial"} |-> logicError]
                 ELSE errors
        ELSE errors

-----------------------------------------------------------------------------
(* parseFloat on the text of an input, a tuple of characters *)

Digits == <<"0", "1", "2", "3", "4", "5", "6", "7", "8", "9">>

IsDigit(c) == \E d \in 1..10 : Digits[d] = c

DigitOf(c) == (CHOOSE d \in 1..10 : Digits[d] = c) - 1

\* the number of digits of text from position i on
RECURSIVE ScanDigits(_, _)
ScanDigits(text, i) ==
    IF i <= Len(text) /\ IsDigit(text[i]) THEN 1 + ScanDigits(text, i + 1) ELSE 0

\* the value of the n digits of text that start at position i
RECURSIVE DigitsValue(_, _, _)
DigitsValue(text, i, n) ==
    IF n = 0 THEN 0 ELSE 10 * DigitsValue(text, i, n - 1) + DigitOf(text[i + n - 1])

RECURSIVE TenTo(_)
TenTo(n) == IF n = 0 THEN 1 ELSE 10 * TenTo(n - 1)

\* sign, integer digits, fraction digits; NaN when there is no digit; what follows
\* the number is ignored (exponents and leading blanks do not occur in the inputs)
parseFloat(text) ==
    LET signed  == Len(text) > 0 /\ text[1] \in {"-", "+"}
        sign    == IF signed /\ text[1] = "-" THEN -1 ELSE 1
        start   == IF signed THEN 2 ELSE 1
        intLen  == ScanDigits(text, start)
        dot     == start + intLen
        fracLen == IF dot <= Len(text) /\ text[dot] = "."
                   THEN ScanDigits(text, dot + 1) ELSE 0
    IN  IF intLen + fracLen = 0 THEN NaN
        ELSE Norm(sign * (DigitsValue(text, start, intLen) * TenTo(fracLen)
                          + DigitsValue(text, dot + 1, fracLen)),
                  TenTo(fracLen))

-----------------------------------------------------------------------------
(* modules/state.js *)

\* the state object as the module creates it
InitialState ==
    [ marketPrice        |-> Dec(5456),
      currentDividend    |-> Dec(360),
      requiredReturn     |-> Dec(740),
      expectedDividend   |-> Dec(350),
      viewMode           |-> "chart",
      errors             |-> NoErrors,
      growthCalculations |-> <<>>,
      listeners          |-> <<>> ]

\* Object.assign(state, updates); growthCalculations is <<>> for null, <<result>> otherwise
Assign(s, updates) ==
    [k \in DOMAIN s \cup DOMAIN updates |-> IF k \in DOMAIN updates THEN updates[k] ELSE s[k]]

\* state.listeners.forEach(fn => fn(state)): one call per entry, in the order of the list
NotifyListeners(s) ==
    [i \in 1..Len(s.listeners) |-> [listener |-> s.listeners[i], state |-> s]]

\* setState with the listeners called before the updates are applied
setStateNotifyFirst(run, updates) ==
    [run EXCEPT !.state = Assign(run.state, updates),
                !.notified = @ \o NotifyListeners(run.state)]

\* setState on the run of a handler: run.state is the state object, run.notified the
\* listener calls made so far, run.engine the engine calls so far
setState(run, updates) ==
    LET s == Assign(run.state, updates)
    IN  [run EXCEPT !.state = s, !.notified = @ \o NotifyListeners(s)]

\* state.listeners.push(fn)
subscribe(s, fn) == [s EXCEPT !.listeners = Append(@, fn)]

StartRun(s) == [state |-> s, notified |-> <<>>, engine |-> <<>>]

\* the four input values of a state object
InputsOf(s) ==
    [ marketPrice      |-> s.marketPrice,
      currentDividend  |-> s.currentDividend,
      requiredReturn   |-> s.requiredReturn,
      expectedDividend |-> s.expectedDividend ]

\* errors[key] = message on a copy of the error object
WithError(errors, key, message) ==
    [k \in DOMAIN errors \cup {key} |-> IF k = key THEN message ELSE errors[k]]

\* delete errors[key] for every key of keys, on a copy of the error object
WithoutErrors(errors, keys) == [k \in DOMAIN errors \ keys |-> errors[k]]

\* the update object { [field]: value, errors }
FieldUpdate(field, value, errors) ==
    [k \in {field, "errors"} |-> IF k = "errors" THEN errors ELSE value]

-----------------------------------------------------------------------------
(* unnamed/part_004: the chart module (modules/chart.js).  Its state is the three  *)
(* module variables, the Chart instances that were created and not destroyed, and  *)
(* what the canvas carries: the keydown listeners attached to it and its           *)
(* _keydownListener property.  Of the cashFlows a render is given, only the length *)
(* matters here.  Drawing, the tooltip and the focus, blur and mousemove listeners *)
(* are left out.                                                                   *)

\* no Chart instance, no listener: null, undefined
NoId == 0

\* the module as loaded, with a canvas nothing was attached to; announced lists the
\* indexes announceDataPoint was called for by the last operation
InitialChart ==
    [ chartInstance         |-> NoId,
      currentFocusIndex     |-> 0,
      isKeyboardMode        |-> FALSE,
      instances             |-> {},
      keydownListeners      |-> <<>>,
      canvasKeydownListener |-> NoId,
      announced             |-> <<>> ]

\* the identity of a new object: the first id that names no object in use
FreshId(used) ==
    CHOOSE n \in 1..(Cardinality(used) + 1) : n \notin used /\ \A m \in 1..(n - 1) : m \in used

\* the ids of the listeners in a listener list
ListenerIds(listeners) == {listeners[i].id : i \in 1..Len(listeners)}

\* removeEventListener('keydown', oldListener)
RemoveListener(listeners, id) == SelectSeq(listeners, LAMBDA l : l.id # id)

\* if (chartInstance) chartInstance.destroy()
DestroyInstance(c) ==
    IF c.chartInstance # NoId THEN [c EXCEPT !.instances = @ \ {c.chartInstance}] ELSE c

\* setupKeyboardNavigation that attaches the new listener next to the old one
setupKeyboardNavigationKeepOld(c, length) ==
    LET id == FreshId(ListenerIds(c.keydownListeners))
    IN  [c EXCEPT !.keydownListeners = Append(@, [id |-> id, maxIndex |-> length - 1]),
                  !.canvasKeydownListener = id]

\* setupKeyboardNavigation: the old keydown listener is removed, the new one, a closure
\* over the cashFlows of this render, is recorded on the canvas and attached
setupKeyboardNavigation(c, length) ==
    LET kept == IF c.canvasKeydownListener # NoId
                THEN RemoveListener(c.keydownListeners, c.canvasKeydownListener)
                ELSE c.keydownListeners
        id   == FreshId(ListenerIds(kept))
    IN  [c EXCEPT !.keydownListeners = Append(kept, [id |-> id, maxIndex |-> length - 1]),
                  !.canvasKeydownListener = id]

\* the read of cashFlows[1].totalCashFlow, made when a growthRate is passed, throws a
\* TypeError on a projection of fewer than two points
RenderThrows(length, hasRate) == hasRate /\ length < 2

\* renderChart(cashFlows, showLabels, growthRate) with the canvas in the document
renderChart(c, length, hasRate) ==
    IF RenderThrows(length, hasRate) THEN [c EXCEPT !.announced = <<>>]
    ELSE LET destroyed == DestroyInstance(c)
             id        == FreshId(destroyed.instances)
             created   == [destroyed EXCEPT !.currentFocusIndex = 0,
                                            !.chartInstance = id,
                                            !.instances = @ \cup {id},
                                            !.announced = <<>>]
         IN  setupKeyboardNavigation(created, length)

destroyChart(c) ==
    IF c.chartInstance # NoId
    THEN [DestroyInstance(c) EXCEPT !.chartInstance = NoId, !.announced = <<>>]
    ELSE [c EXCEPT !.announced = <<>>]

Min(a, b) == IF a < b THEN a ELSE b

Max(a, b) == IF a > b THEN a ELSE b

NavigationKeys == {"ArrowRight", "ArrowDown", "ArrowLeft", "ArrowUp", "Home", "End"}

\* the switch on e.key with the forward keys not held at the last index
NewIndexUnbounded(key, currentFocusIndex, maxIndex) ==
    CASE key \in {"ArrowRight", "ArrowDown"} -> currentFocusIndex + 1
      [] key \in {"ArrowLeft", "ArrowUp"}    -> Max(currentFocusIndex - 1, 0)
      [] key = "Home"                        -> 0
      [] key = "End"                         -> maxIndex
      [] OTHER                               -> currentFocusIndex

\* the switch on e.key
NewIndex(key, currentFocusIndex, maxIndex) ==
    CASE key \in {"ArrowRight", "ArrowDown"} -> Min(currentFocusIndex + 1, maxIndex)
      [] key \in {"ArrowLeft", "ArrowUp"}    -> Max(currentFocusIndex - 1, 0)
      [] key = "Home"                        -> 0
      [] key = "End"                         -> maxIndex
      [] OTHER                               -> currentFocusIndex

\* one keydown listener run on a key: with no chart instance chartInstance.update
\* throws after the index was written, and nothing is announced
keydownListener(c, listener, key) ==
    LET keyboard == [c EXCEPT !.isKeyboardMode = TRUE]
        newIndex == NewIndex(key, c.currentFocusIndex, listener.maxIndex)
    IN  IF key \notin NavigationKeys \/ newIndex = c.currentFocusIndex THEN keyboard
        ELSE IF c.chartInstance = NoId
             THEN [keyboard EXCEPT !.currentFocusIndex = newIndex]
             ELSE [keyboard EXCEPT !.currentFocusIndex = newIndex,
                                   !.announced = Append(@, newIndex)]

\* a keydown event on the canvas: the attached listeners run in the order attached
RECURSIVE DispatchKeydown(_, _, _)
DispatchKeydown(c, listeners, key) ==
    IF listeners = <<>> THEN c
    ELSE DispatchKeydown(keydownListener(c, Head(listeners), key), Tail(listeners), key)

-----------------------------------------------------------------------------
(* unnamed/part_000: the closed-form entry point.  Its imports resolve to          *)
(* modules/state.js, modules/validation.js and modules/calculations.js.  The input *)
(* handlers of this entry point never write expectedDividend, which keeps the      *)
(* value of state.js.  updateFieldError and updateValidationSummary only write the *)
(* DOM and are left out.                                                           *)

InputFields == {"marketPrice", "currentDividend", "requiredReturn"}

\* what the user types into each input
InputTexts ==
    [ marketPrice     |-> {<<"1", "0", "0">>, <<"1">>, <<>>},
      currentDividend |-> {<<"5">>, <<"0">>, <<"2", "0">>, <<"6", "0">>},
      requiredReturn  |-> {<<"7">>, <<"2", "5">>, <<"a", "b", "c">>} ]

\* the arguments updateCalculations passes to the engine
EngineParams(s) ==
    [ marketPrice     |-> s.marketPrice,
      currentDividend |-> s.currentDividend,
      requiredReturn  |-> s.requiredReturn ]

\* the call of calculateGrowthMetrics, recorded with the inputs held in state
CallEngine(run, params) ==
    [run EXCEPT !.engine = Append(@, [params |-> params, inputs |-> InputsOf(run.state)])]

\* the engine never throws, so the catch branch is not reached
updateCalculations(run) ==
    LET s == run.state
    IN  IF hasErrors(s.errors)
        THEN setState(run, [growthCalculations |-> <<>>])
        ELSE LET calculations == GrowthMetricsOf(EngineParams(s))
                 called       == CallEngine(run, EngineParams(s))
                 allErrors    == validateAllInputs(s)
             IN  IF hasErrors(allErrors)
                 THEN setState(called, [errors |-> allErrors, growthCalculations |-> <<>>])
                 ELSE setState(called, [errors |-> NoErrors,
                                        growthCalculations |-> <<calculations>>])

\* the handler's error object with a recorded financial error left in place
HandlerErrorsKeepFinancial(errors, field, error) ==
    IF error # Null THEN WithError(errors, field, error)
    ELSE WithoutErrors(errors, {field})

\* the error object the debounced handler writes for its field
HandlerErrors(errors, field, error) ==
    IF error # Null THEN WithError(errors, field, error)
    ELSE WithoutErrors(errors, {field, "financial"})

\* debouncedUpdate without the branch that clears the result on a field error
debouncedUpdateKeepResult(run, field, text) ==
    LET value  == parseFloat(text)
        error  == validateField(field, value)
        errors == HandlerErrors(run.state.errors, field, error)
        stored == setState(run, FieldUpdate(field, value, errors))
    IN  IF ~hasErrors(errors) THEN updateCalculations(stored) ELSE stored

\* the body of debouncedUpdate for one field, on the text of its input
debouncedUpdate(run, field, text) ==
    LET value  == parseFloat(text)
        error  == validateField(field, value)
        errors == HandlerErrors(run.state.errors, field, error)
        stored == setState(run, FieldUpdate(field, value, errors))
    IN  IF ~hasErrors(errors) THEN updateCalculations(stored)
        ELSE setState(stored, [growthCalculations |-> <<>>])

\* handleStateChange with the chart drawn whatever the view mode
handleStateChangeAlwaysChart(newState) ==
    IF newState.growthCalculations = <<>> THEN <<>>
    ELSE <<"renderResults", "renderDynamicEquation", "renderChart", "renderTable">>

\* handleStateChange(newState): the renderers it calls, in order
handleStateChange(newState) ==
    IF newState.growthCalculations = <<>> THEN <<>>
    ELSE <<"renderResults", "renderDynamicEquation">>
         \o (IF newState.viewMode = "chart" THEN <<"renderChart">> ELSE <<>>)
         \o <<"renderTable">>

\* per listener call of a handler, the renderers that call made
RenderersCalled(calls) ==
    [i \in 1..Len(calls) |-> IF calls[i].listener = "handleStateChange"
                             THEN handleStateChange(calls[i].state) ELSE <<>>]

\* the chart module after the renderChart calls among these: the projection passed is
\* the stored one, of Horizon + 1 points, with the implied growth as growthRate
RECURSIVE RenderCharts(_, _)
RenderCharts(c, rendered) ==
    IF rendered = <<>> THEN c
    ELSE RenderCharts(IF \E i \in 1..Len(Head(rendered)) : Head(rendered)[i] = "renderChart"
                      THEN renderChart(c, Horizon + 1, TRUE) ELSE c,
                      Tail(rendered))

\* the width below which the table view is forced
NarrowWidth == 600

\* the delay of the resize timer, in ms
ResizeDelay == 250

\* the window at a width, before init(): no timer set, the chart button enabled.
\* timers holds the pending resize timers with the time each has left, resizeTimeout
\* the handle the listener keeps.  Four fields record history: sinceResize the time
\* since the last resize event (up to ResizeDelay), coalesced whether that event
\* cancelled a pending timer, burstRuns the runs of the timer callback since then,
\* forced whether handleResponsiveView ran below NarrowWidth with the width below it
\* ever since.  rendered is RenderersCalled of the last handler.
InitialView(width) ==
    [ innerWidth      |-> width,
      chartBtnDisabled |-> FALSE,
      resizeTimeout   |-> NoId,
      timers          |-> {},
      sinceResize     |-> 0,
      coalesced       |-> FALSE,
      burstRuns       |-> 0,
      forced          |-> FALSE,
      rendered        |-> <<>> ]

\* the run of a handler that also touches the view
StartViewRun(s, v) == [state |-> s, notified |-> <<>>, engine |-> <<>>, view |-> v]

\* switchView(view): the state update; the classes and styles it sets are left out
switchView(run, mode) == setState(run, [viewMode |-> mode])

handleResponsiveView(run) ==
    IF run.view.innerWidth < NarrowWidth
    THEN LET switched == IF run.state.viewMode = "chart" THEN switchView(run, "table") ELSE run
         IN  [switched EXCEPT !.view.chartBtnDisabled = TRUE, !.view.forced = TRUE]
    ELSE [run EXCEPT !.view.chartBtnDisabled = FALSE]

ArrowKeys == {"ArrowLeft", "ArrowRight"}

ActivationKeys == {"Enter", " "}

\* the keydown handler of the chart button
chartBtnKeydown(run, key) ==
    IF key \in ArrowKeys THEN switchView(run, "table")
    ELSE IF key \in ActivationKeys THEN switchView(run, "chart")
    ELSE run

\* the keydown handler of the table button
tableBtnKeydown(run, key) ==
    IF key \in ArrowKeys THEN switchView(run, "chart")
    ELSE IF key \in ActivationKeys THEN switchView(run, "table")
    ELSE run

\* the resize listener without the clearTimeout
resizeListenerNoClear(v, width) ==
    LET id == FreshId({t.id : t \in v.timers})
    IN  [v EXCEPT !.innerWidth = width,
                  !.timers = @ \cup {[id |-> id, remaining |-> ResizeDelay]},
                  !.resizeTimeout = id,
                  !.sinceResize = 0,
                  !.coalesced = FALSE,
                  !.burstRuns = 0,
                  !.forced = @ /\ width < NarrowWidth]

\* the window resized to a width and the resize listener run on the event
resizeListener(v, width) ==
    LET kept == {t \in v.timers : t.id # v.resizeTimeout}
        id   == FreshId({t.id : t \in kept})
    IN  [v EXCEPT !.innerWidth = width,
                  !.timers = kept \cup {[id |-> id, remaining |-> ResizeDelay]},
                  !.resizeTimeout = id,
                  !.sinceResize = 0,
                  !.coalesced = kept # v.timers,
                  !.burstRuns = 0,
                  !.forced = @ /\ width < NarrowWidth]

\* the condition under which the timer callback draws the chart again
ResizeRerenders(s) == s.viewMode = "chart" /\ s.growthCalculations # <<>>

\* the width of the window when only the calculation is exercised
DesktopWidth == 1000

\* what a handler leaves behind: the state, its listener calls and engine calls, the
\* view, and the chart module after the renderers the listener calls ran
Commit(run) ==
    /\ state' = run.state
    /\ notified' = run.notified
    /\ engineLog' = run.engine
    /\ view' = [run.view EXCEPT !.rendered = RenderersCalled(run.notified)]
    /\ chart' = RenderCharts(chart, RenderersCalled(run.notified))

NoCall == [fn |-> "none"]

NoRet == [kind |-> "none"]

Init ==
    /\ state = InitialState
    /\ pending = [f \in InputFields |-> <<>>]
    /\ notified = <<>>
    /\ engineLog = <<>>
    /\ lastOp = "load"
    /\ call = NoCall
    /\ ret = NoRet
    /\ view = InitialView(DesktopWidth)
    /\ chart = InitialChart

\* the calls of init() that change state, in its order: the first
\* handleResponsiveView, the subscription of handleStateChange, the first calculation
init(run) ==
    LET checked == handleResponsiveView(run)
    IN  updateCalculations([checked EXCEPT !.state = subscribe(@, "handleStateChange")])

InitApp ==
    /\ lastOp = "load"
    /\ \E run \in {init(StartViewRun(state, view))} : Commit(run)
    /\ lastOp' = "init"
    /\ UNCHANGED <<pending, call, ret>>

\* an input or change event: the pending timer of the field is cancelled and a new one set
InputEvent(field, text) ==
    /\ lastOp # "load"
    /\ pending' = [pending EXCEPT ![field] = <<text>>]
    /\ UNCHANGED <<state, notified, engineLog, lastOp, call, ret, view, chart>>

\* the timer of a field fires after the quiet window: the handler reads the input
DebouncedUpdate(field) ==
    /\ pending[field] # <<>>
    /\ \E run \in {debouncedUpdate(StartViewRun(state, view), field, pending[field][1])} :
           Commit(run)
    /\ lastOp' = "debounced"
    /\ pending' = [pending EXCEPT ![field] = <<>>]
    /\ UNCHANGED <<call, ret>>

Next ==
    \/ InitApp
    \/ \E field \in InputFields : \E text \in InputTexts[field] : InputEvent(field, text)
    \/ \E field \in InputFields : DebouncedUpdate(field)

Spec == Init /\ [][Next]_vars

-----------------------------------------------------------------------------
(* unnamed/part_000 with its view toggle, skip link and resize listener.  A button  *)
(* that is disabled receives no click and no key.  Time passes in steps of Quantum  *)
(* for the resize timers only; a timer fires once its delay has run out, possibly   *)
(* later.                                                                            *)

\* the widths the window takes
Widths == {NarrowWidth - 1, NarrowWidth, DesktopWidth}

\* the step of the clock, in ms
Quantum == 125

\* what the user types into the market price input
ViewTexts == {<<"1", "0", "0">>, <<>>}

\* the keys pressed on a toggle button
ToggleKeys == ArrowKeys \cup ActivationKeys \cup {"Tab"}

InitView ==
    /\ state = InitialState
    /\ pending = [f \in InputFields |-> <<>>]
    /\ notified = <<>>
    /\ engineLog = <<>>
    /\ lastOp = "load"
    /\ call = NoCall
    /\ ret = NoRet
    /\ view \in {InitialView(width) : width \in Widths}
    /\ chart = InitialChart

\* a click on the chart button
ClickChartBtn ==
    /\ lastOp # "load"
    /\ ~view.chartBtnDisabled
    /\ \E run \in {switchView(StartViewRun(state, view), "chart")} : Commit(run)
    /\ lastOp' = "clickChart"
    /\ UNCHANGED <<pending, call, ret>>

\* a click on the table button
ClickTableBtn ==
    /\ lastOp # "load"
    /\ \E run \in {switchView(StartViewRun(state, view), "table")} : Commit(run)
    /\ lastOp' = "clickTable"
    /\ UNCHANGED <<pending, call, ret>>

\* a key pressed with the focus on the chart button
KeyOnChartBtn(key) ==
    /\ lastOp # "load"
    /\ ~view.chartBtnDisabled
    /\ \E run \in {chartBtnKeydown(StartViewRun(state, view), key)} : Commit(run)
    /\ lastOp' = "keyChart"
    /\ UNCHANGED <<pending, call, ret>>

\* a key pressed with the focus on the table button
KeyOnTableBtn(key) ==
    /\ lastOp # "load"
    /\ \E run \in {tableBtnKeydown(StartViewRun(state, view), key)} : Commit(run)
    /\ lastOp' = "keyTable"
    /\ UNCHANGED <<pending, call, ret>>

\* a click on the skip link to the table
SkipToTable ==
    /\ lastOp # "load"
    /\ \E run \in {switchView(StartViewRun(state, view), "table")} : Commit(run)
    /\ lastOp' = "skipToTable"
    /\ UNCHANGED <<pending, call, ret>>

\* the window is resized to a width: the resize event
Resize(width) ==
    /\ lastOp # "load"
    /\ view' = resizeListener(view, width)
    /\ lastOp' = "resize"
    /\ UNCHANGED <<state, pending, notified, engineLog, call, ret, chart>>

\* time passes while a resize timer still has time left
Tick ==
    /\ \E t \in view.timers : t.remaining > 0
    /\ view' = [view EXCEPT !.timers = {[t EXCEPT !.remaining = Max(@ - Quantum, 0)] : t \in @},
                            !.sinceResize = Min(@ + Quantum, ResizeDelay)]
    /\ UNCHANGED <<state, pending, notified, engineLog, lastOp, call, ret, chart>>

\* a resize timer fires: handleResponsiveView, then the chart is drawn again if shown
ResizeTimer ==
    /\ \E t \in view.timers :
           /\ t.remaining = 0
           /\ \E run \in {handleResponsiveView(
                              StartViewRun(state, [view EXCEPT !.timers = @ \ {t},
                                                               !.burstRuns = @ + 1]))} :
                  /\ state' = run.state
                  /\ notified' = run.notified
                  /\ engineLog' = run.engine
                  /\ view' = [run.view EXCEPT !.rendered = RenderersCalled(run.notified)]
                  /\ \E c \in {RenderCharts(chart, RenderersCalled(run.notified))} :
                         chart' = IF ResizeRerenders(run.state)
                                  THEN renderChart(c, Horizon + 1, TRUE) ELSE c
    /\ lastOp' = "resizeTimer"
    /\ UNCHANGED <<pending, call, ret>>

NextView ==
    \/ InitApp
    \/ \E text \in ViewTexts : InputEvent("marketPrice", text)
    \/ DebouncedUpdate("marketPrice")
    \/ ClickChartBtn
    \/ ClickTableBtn
    \/ \E key \in ToggleKeys : KeyOnChartBtn(key)
    \/ \E key \in ToggleKeys : KeyOnTableBtn(key)
    \/ SkipToTable
    \/ \E width \in Widths : Resize(width)
    \/ Tick
    \/ ResizeTimer

SpecView == InitView /\ [][NextView]_vars

-----------------------------------------------------------------------------
(* unnamed/part_001: the direct-D1 entry point, with a fourth input for            *)
(* expectedDividend; calculateGrowthMetrics of modules/calculations.js ignores it. *)

InputFieldsD1 == {"marketPrice", "currentDividend", "requiredReturn", "expectedDividend"}

InputTextsD1 ==
    [ marketPrice      |-> {<<"1", "0", "0">>, <<>>},
      currentDividend  |-> {<<"5">>, <<"6", "0">>},
      requiredReturn   |-> {<<"7">>, <<"a", "b", "c">>},
      expectedDividend |-> {<<"3", ".", "5">>, <<"5", "0">>, <<"-", "1">>} ]

EngineParamsD1(s) ==
    [ marketPrice      |-> s.marketPrice,
      currentDividend  |-> s.currentDividend,
      requiredReturn   |-> s.requiredReturn,
      expectedDividend |-> s.expectedDividend ]

updateCalculationsD1(run) ==
    LET s == run.state
    IN  IF hasErrors(s.errors)
        THEN setState(run, [growthCalculations |-> <<>>])
        ELSE LET calculations == GrowthMetricsOf(EngineParamsD1(s))
                 called       == CallEngine(run, EngineParamsD1(s))
                 allErrors    == validateAllInputs(s)
             IN  IF hasErrors(allErrors)
                 THEN setState(called, [errors |-> allErrors, growthCalculations |-> <<>>])
                 ELSE setState(called, [growthCalculations |-> <<calculations>>])

\* the error object the debounced handler writes for its field
HandlerErrorsD1(errors, field, error) ==
    IF error # Null THEN WithError(errors, field, error)
    ELSE WithoutErrors(errors, {field})

debouncedUpdateD1(run, field, text) ==
    LET value  == parseFloat(text)
        error  == validateField(field, value)
        errors == HandlerErrorsD1(run.state.errors, field, error)
        stored == setState(run, FieldUpdate(field, value, errors))
    IN  IF ~hasErrors(errors) THEN updateCalculationsD1(stored) ELSE stored

InitD1 ==
    /\ state = InitialState
    /\ pending = [f \in InputFieldsD1 |-> <<>>]
    /\ notified = <<>>
    /\ engineLog = <<>>
    /\ lastOp = "load"
    /\ call = NoCall
    /\ ret = NoRet
    /\ view = InitialView(DesktopWidth)
    /\ chart = InitialChart

initD1(run) ==
    LET checked == handleResponsiveView(run)
    IN  updateCalculationsD1([checked EXCEPT !.state = subscribe(@, "handleStateChange")])

InitAppD1 ==
    /\ lastOp = "load"
    /\ \E run \in {initD1(StartViewRun(state, view))} : Commit(run)
    /\ lastOp' = "init"
    /\ UNCHANGED <<pending, call, ret>>

InputEventD1(field, text) ==
    /\ lastOp # "load"
    /\ pending' = [pending EXCEPT ![field] = <<text>>]
    /\ UNCHANGED <<state, notified, engineLog, lastOp, call, ret, view, chart>>

DebouncedUpdateD1(field) ==
    /\ pending[field] # <<>>
    /\ \E run \in {debouncedUpdateD1(StartViewRun(state, view), field, pending[field][1])} :
           Commit(run)
    /\ lastOp' = "debounced"
    /\ pending' = [pending EXCEPT ![field] = <<>>]
    /\ UNCHANGED <<call, ret>>

NextD1 ==
    \/ InitAppD1
    \/ \E field \in InputFieldsD1 : \E text \in InputTextsD1[field] : InputEventD1(field, text)
    \/ \E field \in InputFieldsD1 : DebouncedUpdateD1(field)

SpecD1 == InitD1 /\ [][NextD1]_vars

-----------------------------------------------------------------------------
(* The pure functions, applied to inputs drawn in the initial state *)

\* the largest explicit years argument of generateCashFlows
MaxYears == 3

SolverPrices == {Num(100), Num(50), Dec(5456), Num(16), Num(1), Num(0), Num(-5), NaN, Undefined}

SolverDividends == {Num(5), Num(2), Num(3), Dec(360), Num(0), Num(50), NaN}

SolverReturns == {Num(7), Num(10), Num(12), Dec(740), Num(25), Dec(1), Undefined}

SolverInputs ==
    [marketPrice : SolverPrices, currentDividend : SolverDividends,
     requiredReturn : SolverReturns]

ValidationInputs ==
    [marketPrice : {Num(100), Dec(5456), Num(1), Num(0), NaN},
     currentDividend : {Num(5), Num(50), Num(0), Num(60)},
     requiredReturn : {Num(7), Num(25), Dec(1), Num(0)},
     expectedDividend : {Dec(350), Dec(250), Num(0), Num(50), Num(-1), Undefined}]

ProjectorInputs ==
    [marketPrice : {Num(16), Num(1), Num(0), NaN},
     currentDividend : {Num(4), Num(1), Num(0)},
     impliedGrowthDecimal : {Num(0), Norm(1, 2), Norm(-1, 2), Num(1), Num(-1), Num(-2),
                             NaN, Infinity},
     years : {<<>>} \cup {<<n>> : n \in 0..MaxYears}]

Triple(p, d, r) == [marketPrice |-> p, currentDividend |-> d, requiredReturn |-> r]

\* inputs of calculateGrowthMetrics: 1 + g is 5/4, 1, 1/4, 1/2, 3/2, 3, 0, or not finite;
\* the last three carry the expectedDividend the direct-D1 entry point passes
MetricsInputs ==
    { Triple(Num(16), Num(0), Num(25)),  Triple(Num(16), Num(4), Num(25)),
      Triple(Num(1), Num(4), Num(25)),   Triple(Num(1), Num(0), Num(25)),
      Triple(Num(16), Num(24), Num(25)), Triple(Num(1), Num(1), Num(200)),
      Triple(Num(16), Num(0), Num(200)), Triple(Num(0), Num(4), Num(25)),
      Triple(Num(0), Num(0), Num(25)),   Triple(Num(-4), Num(4), Num(25)),
      Triple(Num(4), Num(-4), Num(25)),  Triple(NaN, Num(4), Num(25)),
      Triple(Num(16), NaN, Num(25)),     Triple(Num(16), Num(4), NaN),
      Triple(Undefined, Num(4), Num(25)),
      [currentDividend |-> Num(4), requiredReturn |-> Num(25)],
      [marketPrice |-> Num(16), requiredReturn |-> Num(25)],
      [marketPrice |-> Num(16), currentDividend |-> Num(4)],
      Triple(Num(5), Num(1), Num(50)),
      [marketPrice |-> Num(16), currentDividend |-> Num(4), requiredReturn |-> Num(25),
       expectedDividend |-> Num(2)],
      [marketPrice |-> Num(16), currentDividend |-> Num(4), requiredReturn |-> Num(25),
       expectedDividend |-> Num(4)],
      [marketPrice |-> Num(1), currentDividend |-> Num(1), requiredReturn |-> Num(200),
       expectedDividend |-> Norm(3, 2)] }

\* d1, r and g of calculateGordonPrice, r and g as decimals
GordonInputs ==
    [d1 : {Num(2), Num(0), NaN},
     r  : {Dec(10), Num(0), NaN, Infinity},
     g  : {Dec(5), Dec(10), Dec(12), Num(0), Num(-1), NaN, Infinity, Undefined}]

\* a field name, with or without a rule, and the value passed for it
FieldInputs ==
    [field : RuleFields \cup {"viewMode"},
     value : {EmptyString, NullValue, Undefined, NaN, Infinity, NegInfinity,
              Num(-1), Num(0), Norm(9, 1000), Dec(1), Dec(99), Num(1), Num(7),
              Num(25), Dec(2501), Num(50), Dec(5001), Num(500), Dec(50001)}]

\* state objects with zero to three subscriptions, one listener subscribed twice
StoreStates ==
    {[InitialState EXCEPT !.listeners = ls] :
        ls \in {<<>>, <<"handleStateChange">>, <<"handleStateChange", "other">>,
                <<"other", "handleStateChange", "other">>}}
    \cup {[InitialState EXCEPT !.listeners = <<"other", "handleStateChange">>,
                               !.viewMode = "table",
                               !.errors = [k \in {"financial"} |-> GrowthNegativeMessage]]}

\* update objects: those the entry points pass, the empty one, and one naming listeners
StoreUpdates ==
    { [viewMode |-> "table"],
      [growthCalculations |-> <<>>],
      FieldUpdate("marketPrice", Num(100), NoErrors),
      FieldUpdate("requiredReturn", NaN,
                  [k \in {"requiredReturn"} |-> "Required return is required"]),
      [errors |-> NoErrors,
       growthCalculations |-> <<GrowthMetricsOf(EngineParams(InitialState))>>],
      [k \in {} |-> Null],
      [listeners |-> <<"other">>] }

SetStateInputs == [state : StoreStates, updates : StoreUpdates]

SubscribeInputs == [state : StoreStates, fn : {"handleStateChange", "other"}]

Calls ==
    {[fn |-> "calculateImpliedGrowth", args |-> a] : a \in SolverInputs}
    \cup {[fn |-> "calculateGordonPrice", args |-> a] : a \in GordonInputs}
    \cup {[fn |-> "validateAllInputs", args |-> a] : a \in ValidationInputs}
    \cup {[fn |-> "validateField", args |-> a] : a \in FieldInputs}
    \cup {[fn |-> "setState", args |-> a] : a \in SetStateInputs}
    \cup {[fn |-> "subscribe", args |-> a] : a \in SubscribeInputs}
    \cup {[fn |-> "generateCashFlows", args |-> a] : a \in ProjectorInputs}
    \cup {[fn |-> "calculateGrowthMetrics", args |-> a] : a \in MetricsInputs}

\* a call of fn has returned
HasReturned(fn) == call.fn = fn /\ ret.kind = "value"

InitCalc ==
    /\ state = InitialState
    /\ pending = [f \in InputFields |-> <<>>]
    /\ notified = <<>>
    /\ engineLog = <<>>
    /\ lastOp = "load"
    /\ call \in Calls
    /\ ret = NoRet
    /\ view = InitialView(DesktopWidth)
    /\ chart = InitialChart

ApplyCalculateImpliedGrowth ==
    /\ call.fn = "calculateImpliedGrowth" /\ ret = NoRet
    /\ ret' = Returned(calculateImpliedGrowth(call.args))
    /\ UNCHANGED <<state, pending, notified, engineLog, lastOp, call, view, chart>>

ApplyValidateAllInputs ==
    /\ call.fn = "validateAllInputs" /\ ret = NoRet
    /\ ret' = Returned(validateAllInputs(call.args))
    /\ UNCHANGED <<state, pending, notified, engineLog, lastOp, call, view, chart>>

ApplyGenerateCashFlows ==
    /\ call.fn = "generateCashFlows" /\ ret = NoRet
    /\ ret' = Returned(generateCashFlows(call.args))
    /\ UNCHANGED <<state, pending, notified, engineLog, lastOp, call, view, chart>>

ApplyCalculateGrowthMetrics ==
    /\ call.fn = "calculateGrowthMetrics" /\ ret = NoRet
    /\ ret' = Returned(calculateGrowthMetrics(call.args))
    /\ UNCHANGED <<state, pending, notified, engineLog, lastOp, call, view, chart>>

ApplyCalculateGordonPrice ==
    /\ call.fn = "calculateGordonPrice" /\ ret = NoRet
    /\ ret' = calculateGordonPrice(call.args.d1, call.args.r, call.args.g)
    /\ UNCHANGED <<state, pending, notified, engineLog, lastOp, call, view, chart>>

ApplyValidateField ==
    /\ call.fn = "validateField" /\ ret = NoRet
    /\ ret' = Returned(validateField(call.args.field, call.args.value))
    /\ UNCHANGED <<state, pending, notified, engineLog, lastOp, call, view, chart>>

\* setState(updates) on a given state object: returns the run, i.e. the state object
\* afterwards and the listener calls made
ApplySetState ==
    /\ call.fn = "setState" /\ ret = NoRet
    /\ ret' = Returned(setState(StartRun(call.args.state), call.args.updates))
    /\ UNCHANGED <<state, pending, notified, engineLog, lastOp, call, view, chart>>

\* subscribe(fn) on a given state object: returns the state object afterwards
ApplySubscribe ==
    /\ call.fn = "subscribe" /\ ret = NoRet
    /\ ret' = Returned(subscribe(call.args.state, call.args.fn))
    /\ UNCHANGED <<state, pending, notified, engineLog, lastOp, call, view, chart>>

\* calculateGordonPrice applied to what calculateImpliedGrowth returned: the call that
\* recovers the price from expectedD1, r = requiredReturn / 100 and the solved g
ApplyGordonPriceOfSolution ==
    /\ HasReturned("calculateImpliedGrowth")
    /\ \E a \in {[ d1 |-> ret.value.expectedD1,
                   r  |-> Div(Get(call.args, "requiredReturn"), Num(100)),
                   g  |-> ret.value.impliedGrowthDecimal ]} :
           /\ call' = [fn |-> "calculateGordonPrice", args |-> a, solved |-> call.args]
           /\ ret' = calculateGordonPrice(a.d1, a.r, a.g)
    /\ UNCHANGED <<state, pending, notified, engineLog, lastOp, view, chart>>

NextCalc ==
    \/ ApplyGordonPriceOfSolution
    \/ ApplySetState
    \/ ApplySubscribe
    \/ ApplyValidateField
    \/ ApplyCalculateGordonPrice
    \/ ApplyCalculateImpliedGrowth
    \/ ApplyValidateAllInputs
    \/ ApplyGenerateCashFlows
    \/ ApplyCalculateGrowthMetrics

SpecCalc == InitCalc /\ [][NextCalc]_vars

-----------------------------------------------------------------------------
(* The chart module driven directly: renders of projections of every length up to   *)
(* MaxYears + 1 points and of the application's Horizon + 1, with and without a     *)
(* growthRate, keys on the canvas, destroyChart.  call records the operation, the   *)
(* chartInstance before it and, for a key, the index before it.                     *)

ChartLengths == 1..(MaxYears + 1) \cup {Horizon + 1}

\* the keys pressed on the canvas
CanvasKeys == NavigationKeys \cup {"Tab"}

InitChart ==
    /\ state = InitialState
    /\ pending = [f \in InputFields |-> <<>>]
    /\ notified = <<>>
    /\ engineLog = <<>>
    /\ lastOp = "load"
    /\ call = NoCall
    /\ ret = NoRet
    /\ view = InitialView(DesktopWidth)
    /\ chart = InitialChart

RenderChart(length, hasRate) ==
    /\ chart' = renderChart(chart, length, hasRate)
    /\ lastOp' = IF RenderThrows(length, hasRate) THEN "renderChartThrew" ELSE "renderChart"
    /\ call' = [fn |-> "renderChart",
                args |-> [length |-> length, hasRate |-> hasRate,
                          chartInstance |-> chart.chartInstance]]
    /\ UNCHANGED <<state, pending, notified, engineLog, ret, view>>

\* a key pressed with the focus on the canvas
CanvasKeydown(key) ==
    /\ chart.keydownListeners # <<>>
    /\ chart' = DispatchKeydown([chart EXCEPT !.announced = <<>>], chart.keydownListeners, key)
    /\ lastOp' = "keydown"
    /\ call' = [fn |-> "keydown", args |-> [key |-> key, index |-> chart.currentFocusIndex]]
    /\ UNCHANGED <<state, pending, notified, engineLog, ret, view>>

DestroyChart ==
    /\ chart' = destroyChart(chart)
    /\ lastOp' = "destroyChart"
    /\ call' = [fn |-> "destroyChart", args |-> [chartInstance |-> chart.chartInstance]]
    /\ UNCHANGED <<state, pending, notified, engineLog, ret, view>>

NextChart ==
    \/ \E length \in ChartLengths : \E hasRate \in BOOLEAN : RenderChart(length, hasRate)
    \/ \E key \in CanvasKeys : CanvasKeydown(key)
    \/ DestroyChart

SpecChart == InitChart /\ [][NextChart]_vars

-----------------------------------------------------------------------------
(* Properties of the engine and of the validation (SpecCalc) *)

SolverReturned == HasReturned("calculateImpliedGrowth") \/ HasReturned("calculateGrowthMetrics")

\* the three inputs of the solver are present and finite
FiniteArgs(a) ==
    \A k \in {"marketPrice", "currentDividend", "requiredReturn"} :
        k \in DOMAIN a /\ IsFiniteNum(a[k])

\* C1: for finite P, D0 and R with P + D0 # 0 the returned impliedGrowthDecimal g
\* satisfies g * (P + D0) = (R/100) * P - D0 and impliedGrowth is 100 * g; the three
\* worked cases give 2/105, 3/52 and 9/103.
C1_ClosedFormGrowth ==
    (SolverReturned /\ FiniteArgs(call.args)
       /\ Add(call.args.marketPrice, call.args.currentDividend) # Num(0))
    => LET P  == call.args.marketPrice
           D0 == call.args.currentDividend
           R  == call.args.requiredReturn
           g  == ret.value.impliedGrowthDecimal
       IN  /\ IsFiniteNum(g)
           /\ Mul(g, Add(P, D0)) = Sub(Mul(Div(R, Num(100)), P), D0)
           /\ ret.value.impliedGrowth = Mul(Num(100), g)
           /\ (P = Num(100) /\ D0 = Num(5) /\ R = Num(7))
                => (g = <<2, 105>> /\ ret.value.impliedGrowth = <<40, 21>>)
           /\ (P = Num(50) /\ D0 = Num(2) /\ R = Num(10)) => g = <<3, 52>>
           /\ (P = Num(100) /\ D0 = Num(3) /\ R = Num(12)) => g = <<9, 103>>

\* the solver has returned 2/105 for price 100, dividend 5, return 7%
C1_Witness ==
    /\ HasReturned("calculateImpliedGrowth")
    /\ call.args = Triple(Num(100), Num(5), Num(7))
    /\ ret.value.impliedGrowthDecimal = <<2, 105>>

\* 0 <= g < r on the numerators and denominators; false when g or r is not a number
InUnitRange(g, r) ==
    /\ g[2] > 0 /\ g[1] >= 0
    /\ \/ r = Infinity
       \/ r[2] > 0 /\ g[1] * r[2] < r[1] * g[2]

\* C2: the returned isValid is true exactly when 0 <= impliedGrowthDecimal < requiredReturn/100
C2_IsValidIffInRange ==
    SolverReturned
    => LET R == Get(call.args, "requiredReturn")
           r == IF IsFiniteNum(R) THEN Norm(R[1], R[2] * 100) ELSE ToNumber(R)
       IN  ret.value.isValid <=> InUnitRange(ret.value.impliedGrowthDecimal, r)

\* both outcomes occur: a valid growth returned, and g = r (dividend 0) returned as invalid
C2_Witness ==
    /\ HasReturned("calculateImpliedGrowth")
    /\ call.args.currentDividend = Num(0)
    /\ call.args.marketPrice = Num(100)
    /\ call.args.requiredReturn = Num(7)
    /\ ret.value.impliedGrowthDecimal = <<7, 100>>
    /\ ~ret.value.isValid

\* every field passes validateField
FieldsInRange(inputs) ==
    \A field \in RuleFields : validateField(field, Get(inputs, field)) = Null

\* C3: for inputs that pass the field checks, validateAllInputs reports errors.financial
\* exactly when calculateImpliedGrowth on the same inputs returns isValid = false
C3_FinancialAgreesWithEngine ==
    (HasReturned("validateAllInputs") /\ FieldsInRange(call.args))
    => (("financial" \in DOMAIN ret.value)
          <=> ~calculateImpliedGrowth(EngineParams(call.args)).isValid)

\* C6: calculateGrowthMetrics never returns a result whose impliedGrowth is NaN or infinite
C6_NoNaNOrInfiniteResult ==
    HasReturned("calculateGrowthMetrics") => IsFiniteNum(ret.value.impliedGrowth)

\* the years of a returned projection are 0, 1, ..., n in that order
YearsUpTo(cashFlows, n) ==
    /\ Len(cashFlows) = n + 1
    /\ \A i \in 1..Len(cashFlows) : cashFlows[i].year = i - 1

\* C9: generateCashFlows returns years + 1 points for the years 0..years in order (10
\* when years is omitted), and calculateGrowthMetrics always returns 11 points
C9_FullHorizon ==
    /\ HasReturned("generateCashFlows")
         => YearsUpTo(ret.value,
                      IF call.args.years = <<>> THEN 10 ELSE call.args.years[1])
    /\ HasReturned("calculateGrowthMetrics") => YearsUpTo(ret.value.cashFlows, 10)

\* a projection of 11 points whose cumulative total starts negative and ends positive
C9_Witness ==
    /\ HasReturned("calculateGrowthMetrics")
    /\ Len(ret.value.cashFlows) = 11
    /\ Lt(ret.value.cashFlows[1].cumulativeCashFlow, Num(0))
    /\ Lt(Num(0), ret.value.cashFlows[11].cumulativeCashFlow)

\* the projection returned by either entry of the engine
ReturnedCashFlows ==
    IF call.fn = "generateCashFlows" THEN ret.value ELSE ret.value.cashFlows

\* -marketPrice as a value: NaN when the price is missing or not a number
MinusPrice(args) ==
    LET P == Get(args, "marketPrice")
    IN  IF P[2] >= 0 /\ P # NaN THEN <<0 - P[1], P[2]>> ELSE NaN

\* C10: the year-0 point has dividend 0 and investment = totalCashFlow =
\* cumulativeCashFlow = -marketPrice, and investment is 0 at every later year
C10_YearZeroIsInvestment ==
    (HasReturned("generateCashFlows") \/ HasReturned("calculateGrowthMetrics"))
    => LET cf == ReturnedCashFlows
       IN  /\ cf[1].year = 0
           /\ cf[1].dividend = Num(0)
           /\ cf[1].investment = MinusPrice(call.args)
           /\ cf[1].totalCashFlow = MinusPrice(call.args)
           /\ cf[1].cumulativeCashFlow = MinusPrice(call.args)
           /\ \A i \in 2..Len(cf) : cf[i].investment = Num(0)

\* a projection for price 16 with later years: year 0 carries -16
C10_Witness ==
    /\ HasReturned("generateCashFlows")
    /\ call.args.marketPrice = Num(16)
    /\ Len(ret.value) > 2
    /\ ret.value[1].investment = <<-16, 1>>
    /\ ret.value[2].investment = <<0, 1>>

-----------------------------------------------------------------------------
(* Properties of the entry points (Spec: part_000, SpecD1: part_001) *)

\* C4: calculateGrowthMetrics is never invoked on an input combination for which
\* validateAllInputs reports an error
C4_EngineOnlyOnValidatedInputs ==
    \A i \in 1..Len(engineLog) : ~hasErrors(validateAllInputs(engineLog[i].inputs))

\* C5: whenever state.growthCalculations is non-null its isValid flag is true
C5_StoredResultIsValid ==
    state.growthCalculations # <<>> => state.growthCalculations[1].isValid

\* the three inputs of the closed-form entry point are within their field ranges
ClosedFormFieldsInRange(s) ==
    \A field \in InputFields : validateField(field, s[field]) = Null

\* the financial-logic check of the validation passes on the values held in state
FinancialCheckPasses(s) ==
    validateFinancialLogic(ValidationGrowth(s), Div(s.requiredReturn, Num(100))) = Null

\* C7: after a debounced update that leaves the three inputs within range and the
\* financial-logic check satisfied, state.growthCalculations is the result computed
\* from the current inputs and state.errors is empty
C7_FreshResultAfterValidUpdate ==
    (lastOp = "debounced" /\ ClosedFormFieldsInRange(state) /\ FinancialCheckPasses(state))
    => /\ state.growthCalculations = <<GrowthMetricsOf(EngineParams(state))>>
       /\ DOMAIN state.errors = {}

\* a valid update that follows a recorded error: the result is the one for price 100
C7_Witness ==
    /\ lastOp = "debounced"
    /\ state.marketPrice = Num(100)
    /\ state.currentDividend = Num(5)
    /\ state.requiredReturn = Num(7)
    /\ state.growthCalculations # <<>>
    /\ state.growthCalculations[1].impliedGrowthDecimal = <<2, 105>>
    /\ Len(notified) = 2
    /\ "financial" \in DOMAIN notified[1].state.errors
       \/ notified[1].state.growthCalculations # <<>>

\* the four inputs of the direct-D1 entry point are within their field ranges
DirectFieldsInRange(s) ==
    \A field \in InputFieldsD1 : validateField(field, s[field]) = Null

\* C8: in the direct-D1 entry point, after a debounced update that leaves the four
\* fields within range and the financial-logic check satisfied, state.growthCalculations
\* is the result for the current inputs, whatever errors earlier updates recorded
C8_DirectRecomputesAfterValidUpdate ==
    (lastOp = "debounced" /\ DirectFieldsInRange(state) /\ FinancialCheckPasses(state))
    => state.growthCalculations = <<GrowthMetricsOf(EngineParamsD1(state))>>

-----------------------------------------------------------------------------
(* Properties of the projection (SpecCalc) *)

ProjectionReturned == HasReturned("generateCashFlows") \/ HasReturned("calculateGrowthMetrics")

\* the growth rate the projection was computed with: the decimal form
ProjectionGrowth ==
    IF call.fn = "generateCashFlows" THEN Get(call.args, "impliedGrowthDecimal")
    ELSE ret.value.impliedGrowthDecimal

\* C11: at every year t >= 1 of a returned projection dividend_t = currentDividend *
\* (1 + g)^t with g the decimal growth rate, stated as dividend_1 = currentDividend *
\* (1 + g) and dividend_t = dividend_(t-1) * (1 + g), and totalCashFlow_t = dividend_t
\* = dividend_t + investment_t
C11_DividendsCompound ==
    ProjectionReturned
    => LET cf == ReturnedCashFlows
           D0 == Get(call.args, "currentDividend")
           x  == Add(Num(1), ProjectionGrowth)
       IN  \A i \in 2..Len(cf) :
               /\ cf[i].dividend = Mul(IF i = 2 THEN D0 ELSE cf[i - 1].dividend, x)
               /\ cf[i].totalCashFlow = cf[i].dividend
               /\ Add(cf[i].dividend, cf[i].investment) = cf[i].totalCashFlow

\* price 1, dividend 1, return 200%: g = 1/2 and the dividend of year 10 is (3/2)^10
C11_Witness ==
    /\ HasReturned("calculateGrowthMetrics")
    /\ call.args = Triple(Num(1), Num(1), Num(200))
    /\ ret.value.impliedGrowthDecimal = <<1, 2>>
    /\ ret.value.cashFlows[2].dividend = <<3, 2>>
    /\ ret.value.cashFlows[11].dividend = <<59049, 1024>>

\* totalCashFlow summed over the first n points, in the order of the years
RECURSIVE SumTotalCashFlow(_, _)
SumTotalCashFlow(cf, n) ==
    IF n = 1 THEN cf[1].totalCashFlow
    ELSE Add(SumTotalCashFlow(cf, n - 1), cf[n].totalCashFlow)

\* C12: at every point N of a returned projection cumulativeCashFlow_N is the sum of
\* totalCashFlow over the years 0..N, which starts at -marketPrice, and for N >= 1 it
\* is cumulativeCashFlow_(N-1) + totalCashFlow_N
C12_CumulativeIsRunningSum ==
    ProjectionReturned
    => LET cf == ReturnedCashFlows
       IN  /\ cf[1].cumulativeCashFlow = MinusPrice(call.args)
           /\ \A i \in 1..Len(cf) : cf[i].cumulativeCashFlow = SumTotalCashFlow(cf, i)
           /\ \A i \in 2..Len(cf) :
                  cf[i].cumulativeCashFlow
                      = Add(cf[i - 1].cumulativeCashFlow, cf[i].totalCashFlow)

\* price 16, dividend 4, growth 1/2, three years: -16, -10, -1, 25/2
C12_Witness ==
    /\ HasReturned("generateCashFlows")
    /\ call.args.marketPrice = Num(16)
    /\ call.args.currentDividend = Num(4)
    /\ call.args.impliedGrowthDecimal = <<1, 2>>
    /\ call.args.years = <<3>>
    /\ ret.value[2].cumulativeCashFlow = <<-10, 1>>
    /\ ret.value[4].cumulativeCashFlow = <<25, 2>>

-----------------------------------------------------------------------------
(* Properties of the solver, continued (SpecCalc) *)

\* C13: for finite marketPrice > 0, currentDividend >= 0 and required return R, with g
\* the solved growth and D1 = currentDividend * (1 + g), R/100 - D1/marketPrice is g,
\* and the returned dividendYield + impliedGrowth is R (all three in percent)
C13_RoundTrip ==
    (SolverReturned /\ FiniteArgs(call.args)
       /\ Lt(Num(0), call.args.marketPrice) /\ Ge(call.args.currentDividend, Num(0)))
    => LET P  == call.args.marketPrice
           D0 == call.args.currentDividend
           R  == call.args.requiredReturn
           g  == ret.value.impliedGrowthDecimal
           D1 == Mul(D0, Add(Num(1), g))
       IN  /\ Sub(Div(R, Num(100)), Div(D1, P)) = g
           /\ Add(ret.value.dividendYield, ret.value.impliedGrowth) = R

\* price 100, dividend 5, return 7%: yield 107/21 % and growth 40/21 % add up to 7 %
C13_Witness ==
    /\ HasReturned("calculateImpliedGrowth")
    /\ call.args = Triple(Num(100), Num(5), Num(7))
    /\ ret.value.dividendYield = <<107, 21>>
    /\ ret.value.impliedGrowth = <<40, 21>>

\* C14: for every input with marketPrice # 0 the returned expectedD1 is currentDividend
\* * (1 + impliedGrowthDecimal) and dividendYield is expectedD1 / marketPrice * 100;
\* on finite values: expectedD1 = D0 + D0 * g and dividendYield * P = 100 * expectedD1
C14_ExpectedD1AndYield ==
    (SolverReturned /\ Get(call.args, "marketPrice") # Num(0))
    => LET P  == Get(call.args, "marketPrice")
           D0 == Get(call.args, "currentDividend")
           g  == ret.value.impliedGrowthDecimal
           D1 == ret.value.expectedD1
       IN  /\ D1 = Mul(D0, Add(Num(1), g))
           /\ ret.value.dividendYield = Mul(Div(D1, P), Num(100))
           /\ (FiniteArgs(call.args) /\ IsFiniteNum(g))
                => /\ D1 = Add(D0, Mul(D0, g))
                   /\ Mul(ret.value.dividendYield, P) = Mul(Num(100), D1)

\* price 50, dividend 2, return 10%: g = 3/52, expectedD1 = 55/26, yield = 55/13 %
C14_Witness ==
    /\ HasReturned("calculateImpliedGrowth")
    /\ call.args = Triple(Num(50), Num(2), Num(10))
    /\ ret.value.expectedD1 = <<55, 26>>
    /\ ret.value.dividendYield = <<55, 13>>

\* C15: when marketPrice, currentDividend and requiredReturn each pass validateField,
\* marketPrice and marketPrice + currentDividend are strictly positive and the solved
\* growth rate is a finite number, also at the minimum price 1 with dividend 0
C15_ValidatedInputsGiveFiniteGrowth ==
    (SolverReturned
       /\ \A field \in InputFields : validateField(field, Get(call.args, field)) = Null)
    => LET P  == call.args.marketPrice
           D0 == call.args.currentDividend
       IN  /\ Lt(Num(0), P)
           /\ Lt(Num(0), Add(P, D0))
           /\ IsFiniteNum(ret.value.impliedGrowthDecimal)
           /\ IsFiniteNum(ret.value.impliedGrowth)
           /\ (P = Num(1) /\ D0 = Num(0))
                => ret.value.impliedGrowthDecimal = Div(call.args.requiredReturn, Num(100))

\* the minimum price 1 with dividend 0 and the minimum return 0.01%: g = 1/10000
C15_Witness ==
    /\ HasReturned("calculateImpliedGrowth")
    /\ call.args = Triple(Num(1), Num(0), Dec(1))
    /\ validateField("marketPrice", call.args.marketPrice) = Null
    /\ ret.value.impliedGrowthDecimal = <<1, 10000>>

\* x and y are finite and differ by at most 0.1
WithinTenth(x, y) ==
    LET d == Sub(x, y)
    IN  IsFiniteNum(d) /\ Ge(d, Norm(-1, 10)) /\ ~Gt(d, Norm(1, 10))

\* C16: when calculateGrowthMetrics is given an expectedDividend, the returned
\* impliedGrowth is requiredReturn - (expectedDividend / marketPrice) * 100 within 0.1
C16_DirectD1Growth ==
    (HasReturned("calculateGrowthMetrics") /\ "expectedDividend" \in DOMAIN call.args
       /\ FiniteArgs(call.args) /\ IsFiniteNum(call.args.expectedDividend)
       /\ call.args.marketPrice # Num(0))
    => WithinTenth(ret.value.impliedGrowth,
                   Sub(call.args.requiredReturn,
                       Mul(Div(call.args.expectedDividend, call.args.marketPrice), Num(100))))

\* C17: calculateGordonPrice throws exactly when g >= r and otherwise returns
\* d1 / (r - g); calculateImpliedGrowth, generateCashFlows and calculateGrowthMetrics
\* end with a returned value on every numeric input and never with a throw
C17_OnlyGordonPriceThrows ==
    /\ (call.fn = "calculateGordonPrice" /\ ret # NoRet)
         => LET d1 == call.args.d1
                r  == call.args.r
                g  == call.args.g
            IN  /\ ret.kind \in {"throw", "value"}
                /\ ret.kind = "throw" <=> Ge(g, r)
                /\ ret.kind = "value" => ret.value = Div(d1, Sub(r, g))
                /\ (ret.kind = "value" /\ IsFiniteNum(d1) /\ IsFiniteNum(r) /\ IsFiniteNum(g))
                     => Mul(ret.value, Sub(r, g)) = d1
                /\ (d1 = Num(2) /\ r = Dec(10) /\ g = Dec(5)) => ret = Returned(Num(40))
    /\ (call.fn \in {"calculateImpliedGrowth", "generateCashFlows", "calculateGrowthMetrics"}
          /\ ret # NoRet)
         => ret.kind = "value"

\* the boundary g = r = 0.10: the call has ended with the thrown Error
C17_Witness ==
    /\ call.fn = "calculateGordonPrice"
    /\ call.args.r = Dec(10) /\ call.args.g = Dec(10) /\ call.args.d1 = Num(2)
    /\ ret.kind = "throw"

-----------------------------------------------------------------------------
(* Properties of the validation, continued (SpecCalc) *)

\* the bounds the fields are held to, in hundredths, and the field's label
StatedRanges ==
    [ marketPrice      |-> [lo |-> 100, hi |-> 50000, label |-> "Market price"],
      currentDividend  |-> [lo |-> 0,   hi |-> 5000,  label |-> "Current dividend"],
      requiredReturn   |-> [lo |-> 1,   hi |-> 2500,  label |-> "Required return"],
      expectedDividend |-> [lo |-> 0,   hi |-> 5000,  label |-> "Expected next dividend"] ]

\* value is a finite number n/d with lo/100 <= n/d <= hi/100
InStatedRange(field, value) ==
    /\ value[2] > 0
    /\ StatedRanges[field].lo * value[2] <= 100 * value[1]
    /\ 100 * value[1] <= StatedRanges[field].hi * value[2]

\* C18: validateField returns null exactly when the field has no rule or the value is
\* a number within the inclusive bounds of the field; '', null, undefined and NaN give
\* the 'is required' message, also where the coerced value would be out of range
C18_ValidateFieldContract ==
    HasReturned("validateField")
    => LET field == call.args.field
           value == call.args.value
       IN  /\ ret.value = Null
                <=> (field \notin DOMAIN StatedRanges \/ InStatedRange(field, value))
           /\ (field \in DOMAIN StatedRanges
                 /\ value \in {EmptyString, NullValue, Undefined, NaN})
                => ret.value = StatedRanges[field].label \o " is required"
           /\ (field \in DOMAIN StatedRanges /\ ret.value # Null
                 /\ value \notin {EmptyString, NullValue, Undefined, NaN})
                => ret.value = RangeMessage(VALIDATION_RULES[field])

\* null for the market price: its coerced value 0 is below the minimum, and the
\* message is the 'is required' one
C18_Witness ==
    /\ HasReturned("validateField")
    /\ call.args.field = "marketPrice"
    /\ call.args.value = NullValue
    /\ Lt(call.args.value, Num(1))
    /\ ret.value = "Market price is required"

\* C19: the error object validateAllInputs returns has one key per field that fails
\* validateField; it never holds 'financial' together with a field key, and it holds
\* 'financial' exactly when every field passes and g = r - expectedDividend/marketPrice
\* (r = requiredReturn/100) satisfies g >= r or g < 0, that is when expectedDividend
\* is 0 or requiredReturn * marketPrice < 100 * expectedDividend
C19_FinancialOnlyWithoutFieldErrors ==
    HasReturned("validateAllInputs")
    => LET keys == DOMAIN ret.value
           a    == call.args
           r    == Div(Get(a, "requiredReturn"), Num(100))
           g    == Sub(r, Div(Get(a, "expectedDividend"), Get(a, "marketPrice")))
       IN  /\ keys \subseteq RuleFields \cup {"financial"}
           /\ keys \cap RuleFields
                = {field \in RuleFields : validateField(field, Get(a, field)) # Null}
           /\ ~("financial" \in keys /\ keys \cap RuleFields # {})
           /\ "financial" \in keys
                <=> (FieldsInRange(a) /\ (Ge(g, r) \/ Lt(g, Num(0))))
           /\ FieldsInRange(a)
                => ("financial" \in keys
                      <=> \/ a.expectedDividend = Num(0)
                          \/ Lt(Mul(a.requiredReturn, a.marketPrice),
                                Mul(Num(100), a.expectedDividend)))

\* all four fields in range and 0.07 - 50/100 < 0: 'financial' is the only key
C19_Witness ==
    /\ HasReturned("validateAllInputs")
    /\ call.args.marketPrice = Num(100) /\ call.args.requiredReturn = Num(7)
    /\ call.args.expectedDividend = Num(50)
    /\ FieldsInRange(call.args)
    /\ DOMAIN ret.value = {"financial"}
    /\ ret.value.financial = GrowthNegativeMessage

-----------------------------------------------------------------------------
(* Properties of the observable state (SpecCalc) *)

\* C20: setState(updates) leaves every key of updates at its new value and every other
\* key of the state object unchanged, and then has called each entry of state.listeners
\* exactly once, in the order of the list, each with the state as updated; subscribe
\* appends its argument to the list and changes nothing else
C20_SetStateThenNotify ==
    /\ HasReturned("setState")
         => LET s0  == call.args.state
                u   == call.args.updates
                run == ret.value
                s1  == run.state
            IN  /\ DOMAIN s1 = DOMAIN s0 \cup DOMAIN u
                /\ \A k \in DOMAIN u : s1[k] = u[k]
                /\ \A k \in DOMAIN s0 \ DOMAIN u : s1[k] = s0[k]
                /\ Len(run.notified) = Len(s1.listeners)
                /\ \A i \in 1..Len(run.notified) :
                       /\ run.notified[i].listener = s1.listeners[i]
                       /\ run.notified[i].state = s1
    /\ HasReturned("subscribe")
         => LET s0 == call.args.state
                s1 == ret.value
            IN  /\ DOMAIN s1 = DOMAIN s0
                /\ Len(s1.listeners) = Len(s0.listeners) + 1
                /\ s1.listeners[Len(s1.listeners)] = call.args.fn
                /\ \A i \in 1..Len(s0.listeners) : s1.listeners[i] = s0.listeners[i]
                /\ \A k \in DOMAIN s0 \ {"listeners"} : s1[k] = s0[k]

\* two listeners and an update of marketPrice: both were called, in order, and saw 100
C20_Witness ==
    /\ HasReturned("setState")
    /\ call.args.state.listeners = <<"handleStateChange", "other">>
    /\ call.args.state.marketPrice = Dec(5456)
    /\ call.args.updates = FieldUpdate("marketPrice", Num(100), NoErrors)
    /\ Len(ret.value.notified) = 2
    /\ ret.value.notified[1].listener = "handleStateChange"
    /\ ret.value.notified[2].listener = "other"
    /\ ret.value.notified[2].state.marketPrice = Num(100)
    /\ ret.value.state.currentDividend = Dec(360)

-----------------------------------------------------------------------------
(* Properties of the entry points, continued (Spec: part_000) *)

\* C21: once init has run, after every completed updateCalculations call or debounced
\* input handler state.growthCalculations is non-null exactly when state.errors is empty
C21_ResultIffNoErrors ==
    lastOp \in {"init", "debounced"}
    => (state.growthCalculations # <<>> <=> DOMAIN state.errors = {})

\* a handler that found a field error with a result on display: the result is gone
C21_Witness ==
    /\ lastOp = "debounced"
    /\ DOMAIN state.errors = {"currentDividend"}
    /\ state.growthCalculations = <<>>
    /\ Len(notified) = 2
    /\ notified[1].state.growthCalculations # <<>>

\* C22: every notification of a listener that carries a non-null growthCalculations
\* carries the result for the marketPrice, currentDividend and requiredReturn of the
\* state it is called with, next to an empty errors object
C22_NoStaleResultNotified ==
    \A i \in 1..Len(notified) :
        LET s == notified[i].state
        IN  s.growthCalculations # <<>>
            => /\ s.growthCalculations = <<GrowthMetricsOf(EngineParams(s))>>
               /\ DOMAIN s.errors = {}

-----------------------------------------------------------------------------
(* Properties of the engine as a whole (SpecCalc) *)

PriceOfSolution == call.fn = "calculateGordonPrice" /\ "solved" \in DOMAIN call

\* C30: for finite marketPrice > 0, currentDividend > 0 and requiredReturn > 0, with g
\* and expectedD1 from calculateImpliedGrowth, calculateGordonPrice(expectedD1,
\* requiredReturn / 100, g) does not throw and returns marketPrice
C30_SolveInvertsGordonPrice ==
    (PriceOfSolution /\ FiniteArgs(call.solved)
       /\ Lt(Num(0), call.solved.marketPrice) /\ Lt(Num(0), call.solved.currentDividend)
       /\ Lt(Num(0), call.solved.requiredReturn))
    => ret = Returned(call.solved.marketPrice)

\* the default inputs 54.56, 3.60, 7.40: the price recovered is 54.56
C30_Witness ==
    /\ PriceOfSolution
    /\ call.solved = Triple(Dec(5456), Dec(360), Dec(740))
    /\ ret.kind = "value"
    /\ ret.value = <<1364, 25>>

-----------------------------------------------------------------------------
(* C26: the keyboard focus of the chart *)

\* cashFlows.length - 1 of the render whose keydown listener is attached
LastIndex == chart.keydownListeners[Len(chart.keydownListeners)].maxIndex

\* C26: after any renders and key presses the focus index lies between 0 and the last
\* index of the rendered projection; a render leaves it at 0; ArrowRight and ArrowDown
\* add 1 and stop at the last index, ArrowLeft and ArrowUp subtract 1 and stop at 0,
\* Home gives 0, End the last index, any other key leaves it; a key press announces a
\* data point only if it changed the index, and then it announces the new one
C26_FocusInRange ==
    /\ chart.keydownListeners # <<>> =>
           /\ chart.currentFocusIndex >= 0
           /\ chart.currentFocusIndex <= LastIndex
    /\ lastOp = "renderChart" => chart.currentFocusIndex = 0
    /\ lastOp = "keydown" =>
           LET key    == call.args.key
               before == call.args.index
               index  == chart.currentFocusIndex
           IN  /\ key \in {"ArrowRight", "ArrowDown"} =>
                      index = IF before < LastIndex THEN before + 1 ELSE LastIndex
               /\ key \in {"ArrowLeft", "ArrowUp"} =>
                      index = IF before > 0 THEN before - 1 ELSE 0
               /\ key = "Home" => index = 0
               /\ key = "End" => index = LastIndex
               /\ key \notin NavigationKeys => index = before
               /\ chart.announced # <<>> => index # before
               /\ index # before /\ chart.chartInstance # NoId => chart.announced = <<index>>

\* ArrowRight was pressed at the last year of the application's projection: the index
\* stayed there and nothing was announced
C26_Witness ==
    /\ lastOp = "keydown"
    /\ call.args.key = "ArrowRight"
    /\ LastIndex = Horizon
    /\ call.args.index = Horizon
    /\ chart.currentFocusIndex = Horizon
    /\ chart.announced = <<>>

-----------------------------------------------------------------------------
(* C27: one chart instance, one keydown listener *)

\* C27: after any renders and destroyChart calls at most one Chart instance is not
\* destroyed, and it is the one chartInstance holds; at most one keydown listener is
\* attached to the canvas; destroyChart leaves chartInstance null with no instance
\* alive, and a second destroyChart changes nothing
C27_OneInstanceOneListener ==
    /\ Cardinality(chart.instances) <= 1
    /\ Len(chart.keydownListeners) <= 1
    /\ chart.chartInstance # NoId => chart.instances = {chart.chartInstance}
    /\ lastOp = "destroyChart" => chart.chartInstance = NoId /\ chart.instances = {}
    /\ destroyChart(destroyChart(chart)) = destroyChart(chart)

\* a render that found the instance and the listener of an earlier render
C27_Witness ==
    /\ lastOp = "renderChart"
    /\ call.args.chartInstance # NoId
    /\ Cardinality(chart.instances) = 1
    /\ Len(chart.keydownListeners) = 1
    /\ chart.canvasKeydownListener = chart.keydownListeners[1].id

-----------------------------------------------------------------------------
(* C23: what handleStateChange renders *)

-----------------------------------------------------------------------------
(* C24: the table view below NarrowWidth *)

\* C24: once handleResponsiveView has run at a width below 600, and for as long as the
\* width stays below 600, viewMode is 'table' whatever the user clicks or presses
C24_TableForcedWhenNarrow == view.forced => state.viewMode = "table"

-----------------------------------------------------------------------------
(* C25: the resize timer *)

\* C25: at most one resize timer is pending, and it is the one the listener holds, set
\* by the last resize event with the full delay (each event cancels the timer pending
\* before it); the timer callback runs only once ResizeDelay has passed since the last
\* resize event, and at most once after it
C25_ResizeCoalesced ==
    /\ Cardinality(view.timers) <= 1
    /\ \A t \in view.timers :
           /\ t.id = view.resizeTimeout
           /\ t.remaining = ResizeDelay - view.sinceResize
    /\ view.burstRuns <= 1
    /\ lastOp = "resizeTimer" =>
           /\ view.sinceResize >= ResizeDelay
           /\ view.burstRuns = 1

\* the callback ran once, after the quiet window, for a resize event that had
\* cancelled the timer of an earlier one
C25_Witness ==
    /\ lastOp = "resizeTimer"
    /\ view.coalesced
    /\ view.burstRuns = 1
    /\ view.sinceResize = ResizeDelay
    /\ view.timers = {}

====
